---- MODULE Spec2Model ----
\* Model of samples/agents/sample_agents_use_webpage_contents.py:
\* main() (index cache stage, topic loop, group lifecycle, final cleanup)
\* and process_topic(), with every remote call, fetch and file operation as
\* one step whose outcome (success, absence, exception) is chosen
\* nondeterministically.
EXTENDS Integers, Sequences, FiniteSets, TLC

\* ---------------------------------------------------------------- bounds
MaxTopics == 3      \* longest topic list explored
MaxFaults == 1      \* most calls that fail (or come back empty) in one run
MinAge == 6         \* youngest persisted index file explored, in days
MaxAge == 8
MaxTokenLen == 2    \* longest <token> of a path, in characters
MaxReplyLen == 3    \* longest selector reply, in pieces
MaxPathLen == 3     \* longest path handed to the URL resolution, in pieces
MaxBodyLen == 3     \* longest body of a filler reply, in pieces
MaxMsgs == 2        \* most messages in a listed thread
MaxBlocks == 2      \* most content blocks in a message
MaxPolls == 3       \* polls counted (the count stays there, the loop goes on)
MaxTopicLen == 33   \* longest topic name, in characters

\* ------------------------------------------------------ program constants
WeekDays == 7       \* timedelta(weeks=1)
None == 0           \* Python None for a handle variable

VARIABLES
    pc,                 \* position in main() / process_topic()
    exitReason,         \* how main() ended ("none" while running)
    topics,             \* the ordered topic list
    file,               \* the persisted parser_response.yaml
    file0,              \* that file as the run found it
    topic_links_yaml,   \* the index main() holds after the cache stage
    main_base_url,      \* main()'s local base_url
    i,                  \* index of the loop's current topic (1-based)
    is_first_topic,
    parser_agent, parser_thread,
    selector_agent, form_filler_agent, form_filler_thread,
    selector_thread,    \* process_topic's short-lived thread
    outcome,            \* terminal state of the current process_topic call
    handles,            \* handles[id] = kind of the id-th created resource
    deleteCalls,        \* ids passed to delete_agent / delete_thread, in order
    deleted,            \* ids whose delete call succeeded
    deleteFailed,       \* [id, by] of delete calls that raised
    processed,          \* topic indices passed to process_topic, in order
    results,            \* [topic, outcome] per finished process_topic call
    nfaults,            \* calls that failed so far
    searchFetches,      \* fetch_web_page_content calls for the search page
    parserCalls,        \* remote calls made for the parser agent
    messages,           \* process_topic: what list_messages returned
    selected_link,      \* process_topic: the selector's reply, then the URL
    relative_path,      \* process_topic: the extracted path
    selected_page_content,  \* process_topic: the fetched instructions
    filled_form,        \* process_topic: the filler's reply
    artifacts,          \* files written under the run's output directory
    fetched,            \* [topic, url] per fetch of an instruction page
    httpGets,           \* requests.get attempts
    fillerMsgs,         \* topics whose message was put on a filler thread
    thread_data,        \* messages on the filler thread created last, newest first
    given,              \* the input of a function checked on its own
    run, remote_status, polls   \* the run-polling loop

given0  == <<topics, file0, given, run, remote_status, polls>>
\* what only lines 326 and 370 assign
inputs  == <<given0, main_base_url>>
mainLoc == <<i, is_first_topic, parser_agent, parser_thread, selector_agent,
             form_filler_agent, form_filler_thread, topic_links_yaml>>
ptData  == <<messages, selected_link, relative_path, selected_page_content,
             filled_form>>
ptLoc   == <<selector_thread, outcome, ptData>>
io      == <<artifacts, fetched, httpGets, fillerMsgs, thread_data>>
remote  == <<handles, deleteCalls, deleted, deleteFailed>>
hist    == <<processed, results, searchFetches, parserCalls>>
vars    == <<pc, exitReason, topics, file, file0, topic_links_yaml,
             main_base_url, i, is_first_topic,
             parser_agent, parser_thread, selector_agent, form_filler_agent,
             form_filler_thread, selector_thread, outcome, handles,
             deleteCalls, deleted, deleteFailed, processed, results, nfaults,
             searchFetches, parserCalls, messages, selected_link,
             relative_path, selected_page_content, filled_form, artifacts,
             fetched, httpGets, fillerMsgs, thread_data, given, run,
             remote_status, polls>>

\* ---------------------------------------------------------------- topics
Marker == "#"       \* an entry for which topic.startswith("#")
Leaf   == "t"       \* any other entry
TopicLists == UNION {[1..n -> {Marker, Leaf}] : n \in 0..MaxTopics}

IsMarker(topic) == topic = Marker

\* line 445: topic.startswith("#") or is_first_topic
IsGroupStartMarkerOnly(topic, first) == IsMarker(topic)
IsGroupStart(topic, first) == IsMarker(topic) \/ first

\* ------------------------------------------------------------ index file
NoFile == [exists |-> FALSE, age |-> 0, content |-> "none"]
NoDate == -1        \* timestamp_created missing from the file
NotADate == -2      \* timestamp_created present but not a date (a string, say)
IsDate(d) == d \notin {NoDate, NotADate}
\* content: what read_yaml_file + ['links'] make of the file body
\*   "good"   a mapping whose 'links' list is non-empty
\*   "empty"  a mapping whose 'links' list is empty
\*   "nokey"  a mapping without 'links' (the subscript raises KeyError)
\*   "bad"    not loadable as YAML (read_yaml_file returns None)
Contents == {"good", "empty", "nokey", "bad"}
Files == {NoFile, [exists |-> TRUE, age |-> NoDate, content |-> "bad"]} \cup
         { [exists |-> TRUE, age |-> a, content |-> c] :
               a \in (MinAge..MaxAge) \cup {NoDate, NotADate},
               c \in {"good", "empty"} }

\* lines 282-292: an unloadable file has no readable timestamp either
get_file_creation_time_from_yaml(f) ==
    IF f.content = "bad" THEN NoDate ELSE f.age

\* lines 295-304: today - D > timedelta(weeks=1); no date -> True
AgeTestInclusive(age) == age >= WeekDays
AgeTest(age) == age > WeekDays

\* the variant that takes a file without a usable date as fresh
is_file_older_than_a_weekLenient(f) ==
    LET d == get_file_creation_time_from_yaml(f)
    IN  IF IsDate(d) THEN AgeTest(d) ELSE FALSE
\* line 299: a truthy value goes to the subtraction, which raises TypeError
\* for a value that is not a date; the handler at lines 302-304 returns True
is_file_older_than_a_week(f) ==
    LET d == get_file_creation_time_from_yaml(f)
    IN  IF d # NoDate
        THEN IF IsDate(d) THEN AgeTest(d) ELSE TRUE
        ELSE TRUE

\* line 360: os.path.exists(filepath) and not is_file_older_than_a_week(filepath)
UseExistingFile(f) == f.exists /\ ~is_file_older_than_a_week(f)

\* --------------------------------------------------------- remote handles
Kinds == {"parser_agent", "parser_thread", "filler_agent", "filler_thread",
          "selector_agent", "selector_thread"}
GroupKinds == {"filler_agent", "filler_thread", "selector_agent"}

Created == 1..Len(handles)
Live == Created \ deleted
InSeq(x, s) == \E n \in 1..Len(s) : s[n] = x
CreatedOf(kind) == {h \in Created : handles[h] = kind}
CreateCalls(kind) == Cardinality(CreatedOf(kind))
DeleteCallsOf(kind) ==
    Cardinality({n \in 1..Len(deleteCalls) :
                    deleteCalls[n] \in Created /\ handles[deleteCalls[n]] = kind})

CanFail == nfaults < MaxFaults
Fault == nfaults' = nfaults + 1
NoFault == UNCHANGED nfaults

\* a successful create_agent / create_thread call returns a fresh handle
NewId == Len(handles) + 1
Create(kind) == handles' = Append(handles, kind)

\* project_client.agents.delete_agent / delete_thread: the call either
\* succeeds or raises; a call that raised has not deleted the resource
Delete(id, ok, by) ==
    /\ deleteCalls' = Append(deleteCalls, id)
    /\ deleted' = IF ok THEN deleted \cup {id} ELSE deleted
    /\ deleteFailed' = IF ok THEN deleteFailed
                       ELSE deleteFailed \cup {[id |-> id, by |-> by]}
    /\ UNCHANGED handles

\* ------------------------------------------------------------------ text
\* A string is a sequence of pieces; each literal the code searches for is
\* one piece, every other piece stands for one character of its class.
NoneText == <<"<None>">>        \* Python None where a string is expected
Falsy(x) == x = NoneText \/ x = <<>>    \* "if not x"
DocDefs == "/document-definitions/"
Label == "link"
Colon == ":"
Space == " "
SQ == "'"
DQ == "<dq>"                    \* the double-quote character
Fence == "<fence>"               \* three backticks
Http == "http"
Backslash == "<backslash>"

Min(S) == CHOOSE x \in S : \A y \in S : x <= y
Max(S) == CHOOSE x \in S : \A y \in S : x >= y
SeqsUpTo(A, n) == UNION {[1..k -> A] : k \in 0..n}

\* str.rstrip("'")
RECURSIVE RStripQuote(_)
RStripQuote(t) ==
    IF t # <<>> /\ t[Len(t)] = SQ THEN RStripQuote(SubSeq(t, 1, Len(t) - 1))
    ELSE t

\* [^\s"'\\]
TokenPiece(x) == x \notin {Space, SQ, DQ, Backslash}

\* line 156: the pattern (?:link)?:?\s*["']?(\/document-definitions\/[^\s"'\\]+)
\* tried at position k; the result is the set of places where group 1 starts
GroupStartsAt(t, k) ==
    LET n  == Len(t)
        a1 == {k} \cup {m \in {k + 1} : k <= n /\ t[k] = Label}
        a2 == a1 \cup {m + 1 : m \in {x \in a1 : x <= n /\ t[x] = Colon}}
        a3 == {m \in k..(n + 1) :
                  \E a \in a2 : a <= m /\ \A x \in a..(m - 1) : t[x] = Space}
        a4 == a3 \cup {m + 1 : m \in {x \in a3 : x <= n /\ t[x] \in {SQ, DQ}}}
    IN  {q \in a4 : q + 1 <= n /\ t[q] = DocDefs /\ TokenPiece(t[q + 1])}

\* the greedy [^\s"'\\]+ that starts after position q
TokenEnd(t, q) ==
    Max({e \in (q + 1)..Len(t) : \A x \in (q + 1)..e : TokenPiece(t[x])})

\* a parse that hands back the whole reply when nothing matches
parse_relative_path_or_reply(message_content) ==
    IF message_content = <<>> THEN NoneText ELSE message_content
\* lines 152-165: re.search takes the leftmost position with a match
parse_relative_path_with_regex(message_content) ==
    LET t  == message_content
        ks == {k \in 1..Len(t) : GroupStartsAt(t, k) # {}}
    IN  IF ks = {} THEN NoneText
        ELSE LET q == CHOOSE x \in GroupStartsAt(t, Min(ks)) : TRUE
             IN  RStripQuote(SubSeq(t, q, TokenEnd(t, q)))

\* line 17: the portal the sample is set to
OUTDIR == "sosmeta"
Bases == {"sosmeta", "termeta"}
\* line 326
BaseUrlOf(base) == <<Http, "s://", base, ".thl.fi">>
\* lines 325-327
base_url == BaseUrlOf(OUTDIR)
url_postfix == <<"/schema">>
\* lines 368-370: the rebuild branch extends the base URL for termeta
RebuildBaseUrl(base, u) ==
    IF base = "termeta" THEN u \o <<"/termeta">> ELSE u

\* str.startswith("http")
StartsWithHttp(t) == t # <<>> /\ t[1] = Http

\* a resolution that appends in every case
AbsoluteUrlAlwaysJoined(base, path, postfix) == base \o path \o postfix
\* lines 225-228
AbsoluteUrl(base, path, postfix) ==
    IF ~StartsWithHttp(path) THEN base \o path \o postfix ELSE path

\* str.replace(pat, ""): left to right, non-overlapping
RECURSIVE RemoveAll(_, _)
RemoveAll(t, pat) ==
    IF Len(t) < Len(pat) THEN t
    ELSE IF SubSeq(t, 1, Len(pat)) = pat
         THEN RemoveAll(SubSeq(t, Len(pat) + 1, Len(t)), pat)
         ELSE <<t[1]>> \o RemoveAll(Tail(t), pat)

\* line 273: both replace calls, the fence followed by json first
StripFences(t) == RemoveAll(RemoveAll(t, <<Fence, "json">>), <<Fence>>)

\* ------------------------------------------------------------- messages
\* what list_messages returns: ok = FALSE stands for an object whose walk
\* raises (no .data, say), which line 147 catches
TextBlock(v) == [type |-> "text", value |-> v]
ImageBlock == [type |-> "image_file", value |-> <<>>]
Message(role, content) == [role |-> role, content |-> content]
MessageList(data) == [ok |-> TRUE, data |-> data]
Malformed == [ok |-> FALSE, data |-> <<>>]
NoMessages == [ok |-> FALSE, data |-> <<"<None>">>]   \* messages not yet / None

\* a walk that takes the first text block wherever it stands in the content
FirstTextAnywhere(m) ==
    LET ts == {b \in 1..Len(m.content) : m.content[b].type = "text"}
    IN  IF m.role = "assistant" /\ ts # {}
        THEN m.content[Min(ts)].value ELSE NoneText
\* lines 133-144: an assistant message counts when content[0] is a text block
FirstContentText(m) ==
    IF m.role = "assistant" /\ Len(m.content) > 0 /\ m.content[1].type = "text"
    THEN m.content[1].value ELSE NoneText

\* lines 129-149
extract_assistant_reply(msgs) ==
    IF ~msgs.ok THEN NoneText
    ELSE LET hits == {n \in 1..Len(msgs.data) :
                         FirstContentText(msgs.data[n]) # NoneText}
         IN  IF hits = {} THEN NoneText
             ELSE FirstContentText(msgs.data[Min(hits)])

\* ---------------------------------------------------------------- fetch
\* what requests.get does: error # "none" is a transport error (a
\* RequestException), otherwise a response with a status and a body
Body == <<"{", "x", "}">>
Response(error, status, text) == [error |-> error, status |-> status, text |-> text]
GoodResponse == Response("none", 200, Body)
Responses == {GoodResponse, Response("none", 200, <<>>),
              Response("none", 404, <<"x">>), Response("none", 500, <<"x">>),
              Response("ConnectionError", 0, <<>>)}

\* a fetch without raise_for_status
fetch_web_page_content_any_status(resp) ==
    IF resp.error # "none" THEN NoneText ELSE resp.text
\* lines 48-59: raise_for_status raises HTTPError for a 4xx / 5xx status;
\* both it and a transport error are RequestExceptions, caught at line 57
fetch_web_page_content(resp) ==
    IF resp.error # "none" \/ resp.status >= 400 THEN NoneText ELSE resp.text

\* ------------------------------------------------- sample service replies
\* "link: '/document-definitions/a'"
GoodReply == <<Label, Colon, Space, SQ, DocDefs, "a", SQ>>
Prompt == <<"p">>
Replied(t) ==
    MessageList(<<Message("assistant", <<TextBlock(t)>>),
                  Message("user", <<TextBlock(Prompt)>>)>>)
Unanswered == MessageList(<<Message("user", <<TextBlock(Prompt)>>)>>)
SelectorReplies == {Replied(GoodReply), Replied(<<"a">>), Unanswered}
\* the form the filler writes for the t-th entry, as a fenced block: fence,
\* json, the form, fence
FormTag == <<"x1", "x2", "x3", "x4", "x5">>
FormOf(t) == <<Fence, "json", Space, FormTag[t], Space, Fence>>

\* ------------------------------------------------------------------ Init
Init ==
    /\ pc = "start"
    /\ exitReason = "none"
    /\ topics \in TopicLists
    /\ file \in Files
    /\ file0 = file
    /\ topic_links_yaml = "unset"
    /\ i = 1
    /\ is_first_topic = TRUE
    /\ parser_agent = None /\ parser_thread = None
    /\ selector_agent = None /\ form_filler_agent = None
    /\ form_filler_thread = None /\ selector_thread = None
    /\ outcome = "none"
    /\ handles = <<>>
    /\ deleteCalls = <<>>
    /\ deleted = {}
    /\ deleteFailed = {}
    /\ processed = <<>>
    /\ results = <<>>
    /\ nfaults = 0
    /\ searchFetches = 0
    /\ parserCalls = 0
    /\ messages = NoMessages
    /\ selected_link = NoneText /\ relative_path = NoneText
    /\ selected_page_content = NoneText /\ filled_form = NoneText
    /\ artifacts = {}
    /\ fetched = <<>>
    /\ httpGets = 0
    /\ fillerMsgs = <<>>
    /\ thread_data = <<>>
    /\ main_base_url = NoneText
    /\ given = <<>>
    /\ run = "none" /\ remote_status = "none" /\ polls = 0

\* main() returns (an explicit return, or the handler at lines 509-510)
Exit(reason) == pc' = "done" /\ exitReason' = reason
Goto(l) == pc' = l /\ UNCHANGED exitReason

\* ------------------------------------------------- main(): configuration
\* lines 319-356: a missing environment setting raises KeyError, which the
\* handler at lines 509-510 logs
Configure ==
    /\ pc = "start"
    /\ \/ /\ Goto("check_cache") /\ NoFault
          /\ main_base_url' = base_url
       \/ /\ CanFail /\ Fault /\ Exit("config_error")
          /\ UNCHANGED main_base_url
    /\ UNCHANGED <<given0, file, mainLoc, ptLoc, io, remote, hist>>

\* ---------------------------------------------- main(): topic index cache
\* lines 359-360
CheckCache ==
    /\ pc = "check_cache"
    /\ IF UseExistingFile(file) THEN Goto("load_cache") ELSE Goto("fetch_search")
    /\ UNCHANGED <<inputs, file, mainLoc, ptLoc, io, remote, hist, nfaults>>

\* lines 362-366 (and 426-430): read_yaml_file, then the 'links' test
ReadIndex(next) ==
    LET c == IF file.exists THEN file.content ELSE "bad"
    IN  /\ topic_links_yaml' = c
        /\ CASE c = "good"  -> Goto(next)
             [] c = "nokey" -> Exit("index_exception")
             [] OTHER       -> Exit("index_abort")

LoadCache ==
    /\ pc = "load_cache"
    /\ ReadIndex("loop")
    /\ UNCHANGED <<inputs, file, i, is_first_topic, parser_agent, parser_thread,
                   selector_agent, form_filler_agent, form_filler_thread,
                   ptLoc, io, remote, hist, nfaults>>

\* lines 368-375: the base URL of the rebuild, then
\* fetch_web_page_content(url) for the search page
FetchSearchPage ==
    /\ pc = "fetch_search"
    /\ main_base_url' = RebuildBaseUrl(OUTDIR, main_base_url)
    /\ searchFetches' = searchFetches + 1
    /\ httpGets' = httpGets + 1
    /\ \E resp \in Responses :
          /\ IF resp = GoodResponse THEN NoFault ELSE CanFail /\ Fault
          /\ IF Falsy(fetch_web_page_content(resp))
             THEN Exit("index_abort") ELSE Goto("create_parser_agent")
    /\ UNCHANGED <<given0, file, mainLoc, ptLoc, artifacts, fetched,
                   fillerMsgs, thread_data, remote, processed, results,
                   parserCalls>>

\* lines 378-389
CreateParserAgent ==
    /\ pc = "create_parser_agent"
    /\ parserCalls' = parserCalls + 1
    /\ \/ /\ Create("parser_agent") /\ parser_agent' = NewId
          /\ Goto("create_parser_thread") /\ NoFault
       \/ /\ CanFail /\ Fault /\ Exit("index_abort")
          /\ UNCHANGED <<handles, parser_agent>>
    /\ UNCHANGED <<inputs, file, i, is_first_topic, parser_thread,
                   selector_agent, form_filler_agent, form_filler_thread,
                   topic_links_yaml, ptLoc, io, deleteCalls, deleted, deleteFailed,
                   processed, results, searchFetches>>

\* lines 392-395
CreateParserThread ==
    /\ pc = "create_parser_thread"
    /\ parserCalls' = parserCalls + 1
    /\ \/ /\ Create("parser_thread") /\ parser_thread' = NewId
          /\ Goto("parser_message") /\ NoFault
       \/ /\ CanFail /\ Fault /\ Exit("index_abort")
          /\ UNCHANGED <<handles, parser_thread>>
    /\ UNCHANGED <<inputs, file, i, is_first_topic, parser_agent,
                   selector_agent, form_filler_agent, form_filler_thread,
                   topic_links_yaml, ptLoc, io, deleteCalls, deleted, deleteFailed,
                   processed, results, searchFetches>>

\* one parser exchange step that either yields a value or an absence:
\* create_message (398-402), process_run (405-409), list_messages (412-415)
ParserCall(here, next) ==
    /\ pc = here
    /\ parserCalls' = parserCalls + 1
    /\ \/ Goto(next) /\ NoFault
       \/ CanFail /\ Fault /\ Exit("index_abort")
    /\ UNCHANGED <<inputs, file, mainLoc, ptLoc, io, remote, processed, results,
                   searchFetches>>

ParserMessage == ParserCall("parser_message", "parser_run")
ParserRun     == ParserCall("parser_run", "parser_list")
ParserList    == ParserCall("parser_list", "parser_extract")

\* lines 416-425: extract_assistant_reply; an absent or blank reply aborts;
\* otherwise the reply is written with today's date by write_to_file, which
\* swallows an error raised once filepath is set and raises (UnboundLocalError
\* in its handler, line 45) for one raised before
ParserExtractAndWrite ==
    /\ pc = "parser_extract"
    /\ \/ /\ CanFail /\ Fault /\ Exit("index_abort")
          /\ UNCHANGED file
       \/ \E c \in Contents :
             /\ IF c = "good" THEN NoFault ELSE CanFail /\ Fault
             /\ file' = [exists |-> TRUE, age |-> 0, content |-> c]
             /\ Goto("parser_read")
       \/ /\ CanFail /\ Fault /\ Goto("parser_read")
          /\ UNCHANGED file
       \/ /\ CanFail /\ Fault /\ Exit("index_exception")
          /\ UNCHANGED file
    /\ UNCHANGED <<inputs, mainLoc, ptLoc, io, remote, hist>>

\* lines 426-430
ParserReadBack ==
    /\ pc = "parser_read"
    /\ ReadIndex("parser_delete_agent")
    /\ UNCHANGED <<inputs, file, i, is_first_topic, parser_agent, parser_thread,
                   selector_agent, form_filler_agent, form_filler_thread,
                   ptLoc, io, remote, hist, nfaults>>

\* a delete call made by main() itself: an exception it raises reaches the
\* handler at lines 509-510 and ends the run
MainDelete(id, next) ==
    \/ Delete(id, TRUE, "main") /\ Goto(next) /\ NoFault
    \/ CanFail /\ Fault /\ Delete(id, FALSE, "main") /\ Exit("delete_exception")

\* line 433
ParserDeleteAgent ==
    /\ pc = "parser_delete_agent"
    /\ parserCalls' = parserCalls + 1
    /\ MainDelete(parser_agent, "parser_delete_thread")
    /\ UNCHANGED <<inputs, file, mainLoc, ptLoc, io, processed, results,
                   searchFetches>>

\* line 434
ParserDeleteThread ==
    /\ pc = "parser_delete_thread"
    /\ parserCalls' = parserCalls + 1
    /\ MainDelete(parser_thread, "loop")
    /\ UNCHANGED <<inputs, file, mainLoc, ptLoc, io, processed, results,
                   searchFetches>>

\* ------------------------------------------------ main(): the topic loop
\* lines 448, 450, 482, 503, 505, 507: "if handle:"
HasHandle(h) == h # None

\* lines 472-479, 491-494: a failed creation at a group start returns
OnGroupCreateFailureContinue == Goto("loop") /\ i' = i + 1
OnGroupCreateFailureCleanup == Goto("cleanup_selector") /\ UNCHANGED i
OnGroupCreateFailure == Exit("group_create_failed") /\ UNCHANGED i

\* lines 444-445 and 499-500: the loop head; a group start goes to the
\* teardown, any other entry is handed to process_topic
LoopHead ==
    /\ pc = "loop"
    /\ IF i > Len(topics)
       THEN Goto("cleanup_selector") /\ UNCHANGED <<is_first_topic, processed>>
       ELSE IF IsGroupStart(topics[i], is_first_topic)
            THEN /\ is_first_topic' = FALSE
                 /\ Goto("grp_delete_agent")
                 /\ UNCHANGED processed
            ELSE /\ processed' = Append(processed, i)
                 /\ Goto("pt_create_thread")
                 /\ UNCHANGED is_first_topic
    /\ UNCHANGED <<inputs, file, i, parser_agent, parser_thread, selector_agent,
                   form_filler_agent, form_filler_thread, topic_links_yaml,
                   ptLoc, io, remote, results, searchFetches, parserCalls, nfaults>>

\* a guarded delete in main(): "if handle: delete(handle.id)"
GuardedMainDelete(h, next) ==
    IF HasHandle(h) THEN MainDelete(h, next)
    ELSE Goto(next) /\ NoFault /\ UNCHANGED remote

\* lines 448-449
GroupDeleteFillerAgent ==
    /\ pc = "grp_delete_agent"
    /\ GuardedMainDelete(form_filler_agent, "grp_delete_thread")
    /\ UNCHANGED <<inputs, file, mainLoc, ptLoc, io, hist>>

\* lines 450-451
GroupDeleteFillerThread ==
    /\ pc = "grp_delete_thread"
    /\ GuardedMainDelete(form_filler_thread, "grp_create_agent")
    /\ UNCHANGED <<inputs, file, mainLoc, ptLoc, io, hist>>

\* lines 454-475
GroupCreateFillerAgent ==
    /\ pc = "grp_create_agent"
    /\ \/ /\ Create("filler_agent") /\ form_filler_agent' = NewId
          /\ Goto("grp_create_thread") /\ NoFault /\ UNCHANGED i
       \/ /\ CanFail /\ Fault /\ form_filler_agent' = None
          /\ OnGroupCreateFailure /\ UNCHANGED handles
    /\ UNCHANGED <<inputs, file, is_first_topic, parser_agent, parser_thread,
                   selector_agent, form_filler_thread, topic_links_yaml, ptLoc, io,
                   deleteCalls, deleted, deleteFailed, hist>>

\* lines 476-479
GroupCreateFillerThread ==
    /\ pc = "grp_create_thread"
    /\ \/ /\ Create("filler_thread") /\ form_filler_thread' = NewId
          /\ thread_data' = <<>>
          /\ Goto("grp_delete_selector") /\ NoFault /\ UNCHANGED i
       \/ /\ CanFail /\ Fault /\ form_filler_thread' = None
          /\ OnGroupCreateFailure /\ UNCHANGED <<handles, thread_data>>
    /\ UNCHANGED <<inputs, file, is_first_topic, parser_agent, parser_thread,
                   selector_agent, form_filler_agent, topic_links_yaml, ptLoc,
                   artifacts, fetched, httpGets, fillerMsgs,
                   deleteCalls, deleted, deleteFailed, hist>>

\* lines 482-483
GroupDeleteSelector ==
    /\ pc = "grp_delete_selector"
    /\ GuardedMainDelete(selector_agent, "grp_create_selector")
    /\ UNCHANGED <<inputs, file, mainLoc, ptLoc, io, hist>>

\* a group start that goes on with the selector agent it has
GroupCreateSelectorReuse ==
    /\ pc = "grp_create_selector"
    /\ Goto("loop") /\ i' = i + 1 /\ NoFault
    /\ UNCHANGED <<inputs, file, is_first_topic, parser_agent, parser_thread,
                   selector_agent, form_filler_agent, form_filler_thread,
                   topic_links_yaml, ptLoc, io, remote, hist>>
\* lines 484-497: on success the entry is consumed ("continue")
GroupCreateSelector ==
    /\ pc = "grp_create_selector"
    /\ \/ /\ Create("selector_agent") /\ selector_agent' = NewId
          /\ Goto("loop") /\ i' = i + 1 /\ NoFault
       \/ /\ CanFail /\ Fault /\ selector_agent' = None
          /\ OnGroupCreateFailure /\ UNCHANGED handles
    /\ UNCHANGED <<inputs, file, is_first_topic, parser_agent, parser_thread,
                   form_filler_agent, form_filler_thread, topic_links_yaml,
                   ptLoc, io, deleteCalls, deleted, deleteFailed, hist>>

\* lines 503-504
CleanupSelector ==
    /\ pc = "cleanup_selector"
    /\ GuardedMainDelete(selector_agent, "cleanup_agent")
    /\ UNCHANGED <<inputs, file, mainLoc, ptLoc, io, hist>>

\* lines 505-506
CleanupFillerAgent ==
    /\ pc = "cleanup_agent"
    /\ GuardedMainDelete(form_filler_agent, "cleanup_thread")
    /\ UNCHANGED <<inputs, file, mainLoc, ptLoc, io, hist>>

\* lines 507-508, then main() returns normally
CleanupFillerThread ==
    /\ pc = "cleanup_thread"
    /\ \/ /\ HasHandle(form_filler_thread)
          /\ \/ Delete(form_filler_thread, TRUE, "main") /\ NoFault
                   /\ Exit("normal")
             \/ CanFail /\ Fault /\ Delete(form_filler_thread, FALSE, "main")
                   /\ Exit("delete_exception")
       \/ /\ ~HasHandle(form_filler_thread)
          /\ Exit("normal") /\ NoFault /\ UNCHANGED remote
    /\ UNCHANGED <<inputs, file, mainLoc, ptLoc, io, hist>>

\* ------------------------------------------------------- process_topic()
\* a "return" that skips the topic: process_topic hands control back to the
\* loop, which goes on with the next entry
SkipTopicAborts(o) == outcome' = o /\ Exit("topic_failure")
SkipTopic(o) == outcome' = o /\ Goto("pt_return")

\* the skip paths that first delete the short-lived thread
\* (lines 188, 196, 204, 209, 216)
SkipAfterDelete(o) == outcome' = o /\ Goto("pt_skip_delete")

\* lines 277-279: an exception raised inside process_topic is logged there
Caught == outcome' = "exception" /\ Goto("pt_return")

\* lines 172-176
PTCreateThread ==
    /\ pc = "pt_create_thread"
    /\ \/ /\ Create("selector_thread") /\ selector_thread' = NewId
          /\ Goto("pt_message") /\ NoFault /\ UNCHANGED outcome
       \/ /\ CanFail /\ Fault /\ SkipTopic("skip_thread")
          /\ UNCHANGED <<handles, selector_thread>>
    /\ UNCHANGED <<inputs, file, mainLoc, ptData, io, deleteCalls, deleted,
                   deleteFailed, hist>>

\* a call on the selector thread that yields a value or an absence; an
\* absence deletes the short-lived thread and skips the topic
SelectorStep(here, next, o) ==
    /\ pc = here
    /\ \/ Goto(next) /\ NoFault /\ UNCHANGED outcome
       \/ CanFail /\ Fault /\ SkipAfterDelete(o)
    /\ UNCHANGED <<inputs, file, mainLoc, selector_thread, ptData, io, remote,
                   hist>>

PTMessage == SelectorStep("pt_message", "pt_run", "skip_message")     \* 183-189
PTRun     == SelectorStep("pt_run", "pt_list", "skip_run")            \* 192-197

\* lines 200-205: list_messages on the selector thread
PTList ==
    /\ pc = "pt_list"
    /\ \/ \E m \in SelectorReplies :
             /\ IF m = Replied(GoodReply) THEN NoFault ELSE CanFail /\ Fault
             /\ messages' = m /\ Goto("pt_extract") /\ UNCHANGED outcome
       \/ /\ CanFail /\ Fault /\ SkipAfterDelete("skip_list")
          /\ UNCHANGED messages
    /\ UNCHANGED <<inputs, file, mainLoc, selector_thread, selected_link,
                   relative_path, selected_page_content, filled_form, io,
                   remote, hist>>

\* lines 206-210
PTExtract ==
    /\ pc = "pt_extract"
    /\ selected_link' = extract_assistant_reply(messages)
    /\ IF Falsy(selected_link')
       THEN SkipAfterDelete("skip_reply")
       ELSE Goto("pt_write_link") /\ UNCHANGED outcome
    /\ UNCHANGED <<inputs, file, mainLoc, selector_thread, messages,
                   relative_path, selected_page_content, filled_form, io,
                   remote, hist, nfaults>>

\* the delete_thread call of a skip path; if it raises, the handler at
\* lines 277-279 catches it
PTSkipDelete ==
    /\ pc = "pt_skip_delete"
    /\ \/ /\ Delete(selector_thread, TRUE, "process_topic") /\ NoFault
          /\ Goto("pt_return") /\ UNCHANGED outcome
       \/ /\ CanFail /\ Fault /\ Delete(selector_thread, FALSE, "process_topic")
          /\ Caught
    /\ UNCHANGED <<inputs, file, mainLoc, selector_thread, ptData, io, hist>>

\* a file of the run's output directory, by the topic and the artifact kind
\* it was written for
Artifact(t, kind, data) == [topic |-> t, kind |-> kind, data |-> data]

\* a write_to_file call inside process_topic: the file is written, or an
\* error raised once filepath is set (line 38 on) is swallowed at line 44, or
\* an error raised before (lines 26, 35) makes the handler itself raise
\* UnboundLocalError at line 45
PTWrite(here, next, kind, data) ==
    /\ pc = here
    /\ \/ /\ artifacts' = artifacts \cup {Artifact(i, kind, data)}
          /\ Goto(next) /\ NoFault /\ UNCHANGED outcome
       \/ /\ CanFail /\ Fault /\ UNCHANGED artifacts
          /\ Goto(next) /\ UNCHANGED outcome
       \/ /\ CanFail /\ Fault /\ UNCHANGED artifacts
          /\ Caught
    /\ UNCHANGED <<inputs, file, mainLoc, selector_thread, remote, hist,
                   fetched, httpGets, fillerMsgs, thread_data>>

\* lines 211-212
PTWriteLink ==
    /\ PTWrite("pt_write_link", "pt_parse", "selected_link", selected_link)
    /\ UNCHANGED ptData

\* lines 213-217
PTParse ==
    /\ pc = "pt_parse"
    /\ relative_path' = parse_relative_path_with_regex(selected_link)
    /\ IF Falsy(relative_path')
       THEN SkipAfterDelete("skip_nolink")
       ELSE Goto("pt_delete_thread") /\ UNCHANGED outcome
    /\ UNCHANGED <<inputs, file, mainLoc, selector_thread, messages,
                   selected_link, selected_page_content, filled_form, io,
                   remote, hist, nfaults>>

\* line 222
PTDeleteThread ==
    /\ pc = "pt_delete_thread"
    /\ \/ /\ Delete(selector_thread, TRUE, "process_topic") /\ NoFault
          /\ Goto("pt_write_combined") /\ UNCHANGED outcome
       \/ /\ CanFail /\ Fault /\ Delete(selector_thread, FALSE, "process_topic")
          /\ Caught
    /\ UNCHANGED <<inputs, file, mainLoc, selector_thread, ptData, io, hist>>

\* lines 225-230
PTWriteCombined ==
    /\ selected_link' = AbsoluteUrl(main_base_url, relative_path, url_postfix)
    /\ PTWrite("pt_write_combined", "pt_fetch", "combined_link", selected_link')
    /\ UNCHANGED <<messages, relative_path, selected_page_content, filled_form>>

\* lines 233-237
PTFetch ==
    /\ pc = "pt_fetch"
    /\ \E resp \in Responses :
          /\ IF resp = GoodResponse THEN NoFault ELSE CanFail /\ Fault
          /\ httpGets' = httpGets + 1
          /\ fetched' = Append(fetched, [topic |-> i, url |-> selected_link,
                                         resp |-> resp])
          /\ selected_page_content' = fetch_web_page_content(resp)
          /\ IF Falsy(selected_page_content')
             THEN SkipTopic("skip_fetch")
             ELSE Goto("pt_write_instr") /\ UNCHANGED outcome
    /\ UNCHANGED <<inputs, file, mainLoc, selector_thread, messages,
                   selected_link, relative_path, filled_form, artifacts,
                   fillerMsgs, thread_data, remote, hist>>

\* lines 238-239
PTWriteInstr ==
    /\ PTWrite("pt_write_instr", "pt_filler_message", "instructions_content",
               selected_page_content)
    /\ UNCHANGED ptData

\* a filler step that posts its message twice
PTFillerMessageTwice ==
    /\ pc = "pt_filler_message"
    /\ \/ /\ fillerMsgs' = Append(fillerMsgs, i)
          /\ thread_data' = <<Message("user", <<TextBlock(Prompt)>>),
                              Message("user", <<TextBlock(Prompt)>>)>>
                                \o thread_data
          /\ Goto("pt_filler_run") /\ NoFault /\ UNCHANGED outcome
       \/ /\ CanFail /\ Fault /\ SkipTopic("skip_filler_message")
          /\ UNCHANGED <<fillerMsgs, thread_data>>
    /\ UNCHANGED <<inputs, file, mainLoc, selector_thread, ptData, artifacts,
                   fetched, httpGets, remote, hist>>
\* lines 242-254: create_message on the group's filler thread
PTFillerMessage ==
    /\ pc = "pt_filler_message"
    /\ \/ /\ fillerMsgs' = Append(fillerMsgs, i)
          /\ thread_data' = <<Message("user", <<TextBlock(Prompt)>>)>> \o thread_data
          /\ Goto("pt_filler_run") /\ NoFault /\ UNCHANGED outcome
       \/ /\ CanFail /\ Fault /\ SkipTopic("skip_filler_message")
          /\ UNCHANGED <<fillerMsgs, thread_data>>
    /\ UNCHANGED <<inputs, file, mainLoc, selector_thread, ptData, artifacts,
                   fetched, httpGets, remote, hist>>

\* lines 257-261: process_run on the filler thread. The run puts the
\* assistant's form on the thread; or it ends in a status other than failed
\* (cancelled, expired, or completed with nothing to say) and adds no
\* assistant text, which lines 108-112 hand on as a run; or it fails or
\* raises, which comes back as None
PTFillerRun ==
    /\ pc = "pt_filler_run"
    /\ \/ /\ thread_data' =
                <<Message("assistant", <<TextBlock(FormOf(i))>>)>> \o thread_data
          /\ Goto("pt_filler_list") /\ NoFault /\ UNCHANGED outcome
       \/ /\ CanFail /\ Fault /\ UNCHANGED thread_data
          /\ Goto("pt_filler_list") /\ UNCHANGED outcome
       \/ /\ CanFail /\ Fault /\ UNCHANGED thread_data
          /\ SkipTopic("skip_filler_run")
    /\ UNCHANGED <<inputs, file, mainLoc, selector_thread, ptData, artifacts,
                   fetched, httpGets, fillerMsgs, remote, hist>>

\* lines 264-268: list_messages hands back the whole thread, newest first
PTFillerList ==
    /\ pc = "pt_filler_list"
    /\ \/ /\ messages' = MessageList(thread_data)
          /\ Goto("pt_filler_extract") /\ NoFault /\ UNCHANGED outcome
       \/ /\ CanFail /\ Fault /\ SkipTopic("skip_filler_list")
          /\ UNCHANGED messages
    /\ UNCHANGED <<inputs, file, mainLoc, selector_thread, selected_link,
                   relative_path, selected_page_content, filled_form, io,
                   remote, hist>>

\* lines 269-272
PTFillerExtract ==
    /\ pc = "pt_filler_extract"
    /\ filled_form' = extract_assistant_reply(messages)
    /\ IF Falsy(filled_form')
       THEN SkipTopic("skip_filler_reply")
       ELSE Goto("pt_write_filled") /\ UNCHANGED outcome
    /\ UNCHANGED <<inputs, file, mainLoc, selector_thread, messages,
                   selected_link, relative_path, selected_page_content, io,
                   remote, hist, nfaults>>

\* lines 273-276: strip the fences, write the form, return it
PTWriteFilled ==
    /\ pc = "pt_write_filled"
    /\ filled_form' = StripFences(filled_form)
    /\ \/ /\ artifacts' = artifacts \cup {Artifact(i, "filled_form", filled_form')}
          /\ outcome' = "Filled" /\ Goto("pt_return") /\ NoFault
       \/ /\ CanFail /\ Fault /\ UNCHANGED artifacts
          /\ outcome' = "Filled" /\ Goto("pt_return")
       \/ /\ CanFail /\ Fault /\ UNCHANGED artifacts
          /\ Caught
    /\ UNCHANGED <<inputs, file, mainLoc, selector_thread, messages,
                   selected_link, relative_path, selected_page_content,
                   fetched, httpGets, fillerMsgs, thread_data, remote, hist>>

\* process_topic has returned; line 444 takes the next entry
PTReturn ==
    /\ pc = "pt_return"
    /\ results' = Append(results, [topic |-> i, outcome |-> outcome])
    /\ selector_thread' = None
    /\ outcome' = "none"
    /\ messages' = NoMessages
    /\ selected_link' = NoneText /\ relative_path' = NoneText
    /\ selected_page_content' = NoneText /\ filled_form' = NoneText
    /\ i' = i + 1
    /\ Goto("loop")
    /\ UNCHANGED <<inputs, file, is_first_topic, parser_agent, parser_thread,
                   selector_agent, form_filler_agent, form_filler_thread,
                   topic_links_yaml, io, remote, processed, searchFetches,
                   parserCalls, nfaults>>

Next ==
    \/ Configure \/ CheckCache \/ LoadCache
    \/ FetchSearchPage \/ CreateParserAgent \/ CreateParserThread
    \/ ParserMessage \/ ParserRun \/ ParserList \/ ParserExtractAndWrite
    \/ ParserReadBack \/ ParserDeleteAgent \/ ParserDeleteThread
    \/ LoopHead
    \/ GroupDeleteFillerAgent \/ GroupDeleteFillerThread
    \/ GroupCreateFillerAgent \/ GroupCreateFillerThread
    \/ GroupDeleteSelector \/ GroupCreateSelector
    \/ CleanupSelector \/ CleanupFillerAgent \/ CleanupFillerThread
    \/ PTCreateThread \/ PTMessage \/ PTRun \/ PTList \/ PTExtract
    \/ PTWriteLink \/ PTParse \/ PTSkipDelete \/ PTDeleteThread
    \/ PTWriteCombined \/ PTFetch \/ PTWriteInstr
    \/ PTFillerMessage \/ PTFillerRun \/ PTFillerList \/ PTFillerExtract
    \/ PTWriteFilled \/ PTReturn

Spec == Init /\ [][Next]_vars

TypeOK ==
    /\ exitReason \in {"none", "normal", "config_error", "index_abort",
                       "index_exception", "group_create_failed",
                       "delete_exception"}
    /\ i \in 1..(Len(topics) + 1)
    /\ nfaults \in 0..MaxFaults
    /\ deleted \subseteq Created
    /\ httpGets = searchFetches + Len(fetched)

\* ======================================================== derived notions
Indices == 1..Len(topics)
Index == [n \in Indices |-> n]
IsLeafAt(n) == ~IsMarker(topics[n])
LeafIndices == SelectSeq(Index, IsLeafAt)
Markers == {n \in Indices : IsMarker(topics[n])}
\* the entries at which line 445 starts a group
GroupStarts == {n \in Indices : IsMarker(topics[n]) \/ n = 1}

GroupPcs == {"grp_delete_agent", "grp_delete_thread", "grp_create_agent",
             "grp_create_thread", "grp_delete_selector", "grp_create_selector"}
TopicPcs == {"pt_create_thread", "pt_message", "pt_run", "pt_list",
             "pt_extract", "pt_write_link", "pt_parse", "pt_skip_delete",
             "pt_delete_thread", "pt_write_combined", "pt_fetch",
             "pt_write_instr", "pt_filler_message", "pt_filler_run",
             "pt_filler_list", "pt_filler_extract", "pt_write_filled",
             "pt_return"}

\* process_topic ended (or is ending) topic j in a state other than Filled
Skipped(j) ==
    \/ \E n \in 1..Len(results) :
          results[n].topic = j /\ results[n].outcome # "Filled"
    \/ i = j /\ outcome \notin {"none", "Filled"}
SkippedAt(j, o) ==
    \E n \in 1..Len(results) : results[n].topic = j /\ results[n].outcome = o
FilledAt(j) == SkippedAt(j, "Filled")
\* k is a later leaf entry of the group that j belongs to
SameGroupLater(j, k) ==
    /\ j \in Indices /\ k \in Indices /\ j < k
    /\ \A m \in (j + 1)..k : IsLeafAt(m)

\* a creation at a group start has come back empty
GroupCreateFailed ==
    /\ ~is_first_topic
    /\ pc \notin GroupPcs
    /\ None \in {form_filler_agent, form_filler_thread, selector_agent}

\* a delete call of the group teardown or of the final cleanup has raised
MainDeleteFailed ==
    \E f \in deleteFailed : f.by = "main" /\ handles[f.id] \in GroupKinds

\* ================================================================ claims

\* C1 (as claimed): whenever main() has ended, every filler agent, filler
\* thread and selector agent the run created has been deleted.
C1_GroupHandlesReleasedAtEnd ==
    pc = "done" =>
        \A h \in Created : handles[h] \in GroupKinds => h \in deleted

\* C2: a topic that process_topic skips does not stop the batch: every later
\* leaf entry of the same group is handed to process_topic before the run
\* ends, and while the loop is inside a group (in process_topic, or about to
\* take a leaf entry) the group's filler agent and filler thread exist and no
\* delete call has been issued for them.
C2_BatchIsolation ==
    /\ \A j, k \in Indices :
          (Skipped(j) /\ SameGroupLater(j, k) /\ (pc = "done" \/ i > k))
              => InSeq(k, processed)
    /\ (pc \in TopicPcs \/ (pc = "loop" /\ processed # <<>> /\ i \in Indices
                            /\ IsLeafAt(i)))
          => /\ form_filler_thread \in Live
             /\ form_filler_agent \in Live
             /\ ~InSeq(form_filler_thread, deleteCalls)
             /\ ~InSeq(form_filler_agent, deleteCalls)

\* a topic was skipped because its instruction fetch failed, a later topic of
\* the same group was filled, and the filler thread is still alive
C2_Witness ==
    \E j, k \in Indices :
        /\ SkippedAt(j, "skip_fetch") /\ SameGroupLater(j, k) /\ FilledAt(k)
        /\ pc = "loop" /\ form_filler_thread \in Live

\* C3 (as claimed): when the run ends normally, process_topic has been called
\* exactly once for each leaf entry, in list order.
C3_EveryLeafProcessedInOrder ==
    (pc = "done" /\ exitReason = "normal") => processed = LeafIndices

NumGroups == Cardinality(GroupStarts)
NumMarkers == Cardinality(Markers)
QuietRunEnded == pc = "done" /\ exitReason = "normal" /\ nfaults = 0

C5_SelectorThreadDeletedOnReturn ==
    (pc = "pt_return" /\ selector_thread # None)
        => InSeq(selector_thread, deleteCalls)

\* C6 (as claimed): a delete call of main() that fails is not escalated: the
\* loop still reaches the end of the list and every group resource created
\* still gets its delete call.
C6_DeleteFailureNotEscalated ==
    (pc = "done" /\ MainDeleteFailed) =>
        /\ i > Len(topics)
        /\ \A h \in Created :
              handles[h] \in GroupKinds => InSeq(h, deleteCalls)

\* C7 (as claimed): when the run aborts in the index rebuild, no agent or
\* thread created by the run is left undeleted.
C7_IndexAbortLeavesNothing ==
    (pc = "done" /\ exitReason = "index_abort") => Live = {}

\* C8 (as claimed): a failed creation at a group start does not stop the run:
\* when the run has ended, the leaf entries of later groups were processed.
C8_CreateFailureDoesNotStopRun ==
    (pc = "done" /\ GroupCreateFailed) =>
        \A k \in Indices :
            (k > i /\ IsLeafAt(k) /\ \E m \in (i + 1)..(k - 1) : IsMarker(topics[m]))
                => InSeq(k, processed)

\* C8 (amended): the failures inside process_topic never end the run (every
\* entry handed to process_topic comes back and the loop moves past it; the
\* run ends only normally, on a failed group creation or on an exception
\* raised in main()); a failed creation of a group's filler agent, filler
\* thread or selector agent at a group start does end the run at that entry,
\* and no later entry is processed.
C8_OnlyGroupCreationStopsTheRun ==
    /\ (pc = "done" /\ topic_links_yaml = "good") =>
          /\ exitReason \in {"normal", "group_create_failed",
                             "delete_exception"}
          /\ \A n \in 1..Len(processed) : processed[n] < i
    /\ GroupCreateFailed =>
          /\ pc = "done" /\ exitReason = "group_create_failed"
          /\ i \in GroupStarts
          /\ \A k \in Indices : k >= i => ~InSeq(k, processed)

\* a group was set up, the loop went on to the next group marker, where a
\* creation failed and ended the run with a leaf topic still ahead
C8_Witness ==
    /\ pc = "done" /\ GroupCreateFailed
    /\ i > 1 /\ IsMarker(topics[i])
    /\ i < Len(topics) /\ IsLeafAt(i + 1)

\* C9: no handle is passed to a delete call twice, and every handle passed to
\* a delete call was created by the run.
C9_ExactlyOnceDeletion ==
    /\ \A n \in 1..Len(deleteCalls) : deleteCalls[n] \in Created
    /\ \A n, m \in 1..Len(deleteCalls) :
          deleteCalls[n] = deleteCalls[m] => n = m

\* the previous group was torn down, then a creation of the next group failed
C9_Witness ==
    /\ pc = "done" /\ GroupCreateFailed
    /\ \E n \in 1..Len(deleteCalls) : handles[deleteCalls[n]] = "filler_thread"

\* C10: with a persisted file dated D, the run takes the rebuild branch iff
\* today - D > one week, and a run that does not rebuild makes no fetch of the
\* search page and no call for the parser agent.
PastCacheTest == pc \notin {"start", "check_cache"} /\ exitReason # "config_error"
Rebuilding == pc = "fetch_search" \/ searchFetches > 0
C10_CacheFreshness ==
    (PastCacheTest /\ file0.exists
        /\ IsDate(get_file_creation_time_from_yaml(file0))) =>
        /\ Rebuilding <=> file0.age > WeekDays
        /\ file0.age <= WeekDays =>
              /\ searchFetches = 0 /\ parserCalls = 0
              /\ CreateCalls("parser_agent") = 0
              /\ CreateCalls("parser_thread") = 0

\* a file exactly seven days old was loaded and the loop was reached
C10_Witness ==
    /\ file0.exists /\ file0.age = WeekDays
    /\ pc = "loop" /\ topic_links_yaml = "good" /\ searchFetches = 0

\* C11: a persisted file whose creation timestamp is missing, unreadable or
\* not a date counts as stale: is_file_older_than_a_week is true of it and
\* the run takes the rebuild branch, never the load branch.
C11_BadTimestampIsStale ==
    (file0.exists /\ ~IsDate(get_file_creation_time_from_yaml(file0))) =>
        /\ is_file_older_than_a_week(file0)
        /\ pc # "load_cache"
        /\ PastCacheTest => Rebuilding

\* a file whose timestamp is not a date was found and the search page fetched
C11_Witness ==
    /\ file0.exists /\ file0.age = NotADate /\ file0.content = "good"
    /\ searchFetches = 1 /\ pc = "create_parser_agent"


\* ======================================================================
\* Functions checked on their own: the program does not run (pc holds a
\* position of the function), the input is drawn into given
\* ======================================================================
progState == <<exitReason, topics, file, file0, mainLoc, selector_thread,
               outcome, remote, hist, nfaults, fetched, httpGets, fillerMsgs,
               thread_data>>
NotRunning ==
    /\ exitReason = "none" /\ topics = <<>> /\ file = NoFile /\ file0 = NoFile
    /\ topic_links_yaml = "unset" /\ i = 1 /\ is_first_topic = TRUE
    /\ main_base_url = NoneText
    /\ parser_agent = None /\ parser_thread = None
    /\ selector_agent = None /\ form_filler_agent = None
    /\ form_filler_thread = None /\ selector_thread = None
    /\ outcome = "none" /\ handles = <<>> /\ deleteCalls = <<>>
    /\ deleted = {} /\ deleteFailed = {} /\ processed = <<>>
    /\ results = <<>> /\ nfaults = 0 /\ searchFetches = 0 /\ parserCalls = 0
    /\ fetched = <<>> /\ httpGets = 0 /\ fillerMsgs = <<>>
    /\ thread_data = <<>>
NoPoll == run = "none" /\ remote_status = "none" /\ polls = 0

\* ------------------------------------------ parse_relative_path_with_regex
\* a selector reply built around one path: an optional leading word, a label
\* variant, an optional space, an opening quote, the path, a closing quote
\* and a punctuation mark directly after it
TokenChars == {"a", "1"}
Tokens == SeqsUpTo(TokenChars, MaxTokenLen) \ {<<>>}
Opt(x) == IF x = "none" THEN <<>> ELSE <<x>>
Shapes ==
    [lead : BOOLEAN, label : {"none", "link", "link:", ":"}, space : BOOLEAN,
     open : {"none", SQ, DQ}, token : Tokens, close : {"none", SQ, DQ},
     punct : {"none", ".", ","}]
Decorated(sh) ==
    (IF sh.lead THEN <<"see", Space>> ELSE <<>>)
    \o (CASE sh.label = "none"  -> <<>>
          [] sh.label = "link"  -> <<Label>>
          [] sh.label = "link:" -> <<Label, Colon>>
          [] sh.label = ":"     -> <<Colon>>)
    \o (IF sh.space THEN <<Space>> ELSE <<>>)
    \o Opt(sh.open) \o <<DocDefs>> \o sh.token \o Opt(sh.close) \o Opt(sh.punct)

InitParse ==
    /\ NotRunning /\ NoPoll
    /\ pc = "parse_call"
    /\ given \in Shapes
    /\ messages = NoMessages
    /\ selected_link = Decorated(given)
    /\ relative_path = NoneText
    /\ selected_page_content = NoneText /\ filled_form = NoneText
    /\ artifacts = {}

\* line 213, the call alone
ParseCall ==
    /\ pc = "parse_call"
    /\ relative_path' = parse_relative_path_with_regex(selected_link)
    /\ pc' = "parse_done"
    /\ UNCHANGED <<progState, inputs, messages, selected_link,
                   selected_page_content, filled_form, artifacts>>

SpecParse == InitParse /\ [][ParseCall]_vars

\* C12: for a reply that holds the path /document-definitions/<token>, the
\* parse returns that path with the token verbatim, whatever label, quotes
\* or punctuation stand around it.
C12_PathVerbatimWhateverDecorates ==
    pc = "parse_done" => relative_path = <<DocDefs>> \o given.token

\* ------------------------------- process_topic from the selector's reply on
\* a state of Spec: the index came from a fresh cache, the first entry was a
\* group marker, the second one is a leaf whose selector run has ended and
\* whose messages have just been listed (line 200)
AtSelectorReply ==
    /\ pc = "pt_extract" /\ exitReason = "none"
    /\ topics = <<Marker, Leaf>>
    /\ file = [exists |-> TRUE, age |-> MinAge, content |-> "good"]
    /\ file0 = file
    /\ topic_links_yaml = "good" /\ i = 2 /\ is_first_topic = FALSE
    /\ main_base_url = base_url
    /\ parser_agent = None /\ parser_thread = None
    /\ form_filler_agent = 1 /\ form_filler_thread = 2
    /\ selector_agent = 3 /\ selector_thread = 4
    /\ handles = <<"filler_agent", "filler_thread", "selector_agent",
                   "selector_thread">>
    /\ outcome = "none" /\ deleteCalls = <<>> /\ deleted = {}
    /\ deleteFailed = {} /\ processed = <<2>> /\ results = <<>>
    /\ nfaults = 0 /\ searchFetches = 0 /\ parserCalls = 0
    /\ selected_link = NoneText /\ relative_path = NoneText
    /\ selected_page_content = NoneText /\ filled_form = NoneText
    /\ artifacts = {} /\ fetched = <<>> /\ httpGets = 0 /\ fillerMsgs = <<>>
    /\ thread_data = <<>>

\* the texts the selector may reply with
ReplyPieces == {Colon, Space, SQ, DocDefs, "a"}
Replies == SeqsUpTo(ReplyPieces, MaxReplyLen)

InitReply ==
    /\ AtSelectorReply /\ NoPoll
    /\ given \in Replies
    /\ messages = Replied(given)

NextReply ==
    \/ PTExtract \/ PTSkipDelete \/ PTWriteLink \/ PTParse \/ PTDeleteThread
    \/ PTWriteCombined \/ PTFetch \/ PTWriteInstr \/ PTFillerMessage
    \/ PTFillerRun \/ PTFillerList \/ PTFillerExtract \/ PTWriteFilled
    \/ PTReturn \/ LoopHead
    \/ CleanupSelector \/ CleanupFillerAgent \/ CleanupFillerThread

SpecReply == InitReply /\ [][NextReply]_vars

\* the text holds /document-definitions/ followed by a token character
HoldsPath(t) ==
    \E q \in 1..(Len(t) - 1) : t[q] = DocDefs /\ TokenPiece(t[q + 1])
AfterParsePcs ==
    {"pt_delete_thread", "pt_write_combined", "pt_fetch", "pt_write_instr",
     "pt_filler_message", "pt_filler_run", "pt_filler_list",
     "pt_filler_extract", "pt_write_filled"}

\* C13: for a reply without a path /document-definitions/<token>, the parse
\* returns None, and process_topic ends the topic as a skip: it never passes
\* line 217, fetches no URL and sends nothing to the filler thread.
C13_NoPathMeansSkip ==
    ~HoldsPath(given) =>
        /\ parse_relative_path_with_regex(given) = NoneText
        /\ relative_path = NoneText
        /\ pc \notin AfterParsePcs
        /\ fetched = <<>> /\ httpGets = 0 /\ fillerMsgs = <<>>
        /\ outcome \in {"none", "skip_reply", "skip_nolink", "exception"}
        /\ \A n \in 1..Len(results) :
              results[n].outcome \in {"skip_reply", "skip_nolink", "exception"}
\* a reply of plain text went through the parse, the thread was deleted, the
\* topic came back as a skip and the run ended
C13_Witness ==
    /\ ~HoldsPath(given) /\ given # <<>>
    /\ SkippedAt(2, "skip_nolink")
    /\ 4 \in deleted
    /\ pc = "done"

\* ------------------------------------------------ absolute-URL resolution
Paths == SeqsUpTo({Http, "s://h", DocDefs, "a"}, MaxPathLen)

InitResolve ==
    /\ NotRunning /\ NoPoll
    /\ pc = "resolve_call"
    /\ given \in Paths
    /\ messages = NoMessages
    /\ selected_link = NoneText
    /\ relative_path = given
    /\ selected_page_content = NoneText /\ filled_form = NoneText
    /\ artifacts = {}

\* lines 225-228 alone
ResolveCall ==
    /\ pc = "resolve_call"
    /\ selected_link' = AbsoluteUrl(base_url, relative_path, url_postfix)
    /\ pc' = "resolve_done"
    /\ UNCHANGED <<progState, inputs, messages, relative_path,
                   selected_page_content, filled_form, artifacts>>

SpecResolve == InitResolve /\ [][ResolveCall]_vars

\* C14: a path that does not start with http resolves to base_url + path +
\* suffix; a path that starts with http resolves to itself, nothing appended;
\* resolving the resolved URL again returns it unchanged.
C14_Resolution ==
    pc = "resolve_done" =>
        /\ ~StartsWithHttp(given) =>
              selected_link = base_url \o given \o url_postfix
        /\ StartsWithHttp(given) => selected_link = given
        /\ AbsoluteUrl(base_url, selected_link, url_postfix) = selected_link
\* an absolute URL went through the resolution
C14_Witness ==
    /\ pc = "resolve_done"
    /\ StartsWithHttp(given) /\ Len(given) > 1
    /\ selected_link = given

\* ------------------------------------------------------- fence stripping
\* a filler reply: a body, either bare or inside a fenced block whose opening
\* fence may carry the json tag and may be set off from the body by a blank
Bodies == {b \in SeqsUpTo({"x", "y", Fence}, MaxBodyLen) :
              b # <<>> /\ b[1] # Fence /\ b[Len(b)] # Fence}
Forms == [fenced : BOOLEAN, tag : BOOLEAN, gap : BOOLEAN, body : Bodies]
FormText(f) ==
    IF ~f.fenced THEN f.body
    ELSE <<Fence>> \o (IF f.tag THEN <<"json">> ELSE <<>>)
         \o (IF f.gap THEN <<Space>> ELSE <<>>) \o f.body
         \o (IF f.gap THEN <<Space>> ELSE <<>>) \o <<Fence>>

InitStrip ==
    /\ NotRunning /\ NoPoll
    /\ pc = "strip_call"
    /\ given \in Forms
    /\ messages = NoMessages
    /\ selected_link = NoneText /\ relative_path = NoneText
    /\ selected_page_content = NoneText
    /\ filled_form = FormText(given)
    /\ artifacts = {}

\* line 273 alone
StripCall ==
    /\ pc = "strip_call"
    /\ filled_form' = StripFences(filled_form)
    /\ pc' = "strip_done"
    /\ UNCHANGED <<progState, inputs, messages, selected_link, relative_path,
                   selected_page_content, artifacts>>

SpecStrip == InitStrip /\ [][StripCall]_vars

\* C15: the filled-document text is the filler's reply with only its
\* surrounding fence markers removed, nothing else changed or left over, and
\* with the fence markers inside the body kept.
C15_OnlySurroundingFencesRemoved ==
    pc = "strip_done" => filled_form = given.body

\* ------------------------------------------------ extract_assistant_reply
Blocks == {TextBlock(<<"r">>), TextBlock(<<"q">>), ImageBlock}
Msgs == {Message(r, c) : r \in {"assistant", "user"},
                         c \in SeqsUpTo(Blocks, MaxBlocks)}
Listings == {Malformed} \cup {MessageList(d) : d \in SeqsUpTo(Msgs, MaxMsgs)}

InitExtract ==
    /\ NotRunning /\ NoPoll
    /\ pc = "extract_call"
    /\ given \in Listings
    /\ messages = given
    /\ selected_link = NoneText /\ relative_path = NoneText
    /\ selected_page_content = NoneText /\ filled_form = NoneText
    /\ artifacts = {}

\* line 206 alone
ExtractCall ==
    /\ pc = "extract_call"
    /\ selected_link' = extract_assistant_reply(messages)
    /\ pc' = "extract_done"
    /\ UNCHANGED <<progState, inputs, messages, relative_path,
                   selected_page_content, filled_form, artifacts>>

SpecExtract == InitExtract /\ [][ExtractCall]_vars

\* the walk the claim describes
FirstAssistantText(msgs) ==
    IF ~msgs.ok THEN NoneText
    ELSE LET hits == {n \in 1..Len(msgs.data) :
                         FirstTextAnywhere(msgs.data[n]) # NoneText}
         IN  IF hits = {} THEN NoneText
             ELSE FirstTextAnywhere(msgs.data[Min(hits)])

\* C17: extract_assistant_reply returns the first assistant-authored text
\* content of the list, wherever that block stands in its message's content,
\* and None when there is none or the list is malformed.
C17_FirstAssistantTextAnywhere ==
    pc = "extract_done" => selected_link = FirstAssistantText(given)

\* ------------------------------------------------------------ Spec again
\* a response that raise_for_status lets through
Success(resp) == resp.error = "none" /\ resp.status < 400

\* C16: every fetch_web_page_content call makes one GET attempt; a success
\* hands the body to process_topic; an error status or a transport error
\* comes back as None, which ends that topic with a skip and leaves the loop
\* running.
C16_FetchFailureIsASkip ==
    /\ httpGets = searchFetches + Len(fetched)
    /\ \A n \in 1..Len(fetched) :
          LET f == fetched[n]
          IN  /\ ~Success(f.resp) =>
                    \/ f.topic = i /\ pc = "pt_return" /\ outcome = "skip_fetch"
                    \/ SkippedAt(f.topic, "skip_fetch")
              /\ (Success(f.resp) /\ f.topic = i /\ pc = "pt_write_instr") =>
                    selected_page_content = f.resp.text
              /\ pc = "done" => f.topic < i
\* the instruction page of a topic came back with an error status, the topic
\* was skipped and the next topic was handed to process_topic
C16_Witness ==
    \E n \in 1..Len(fetched) :
        /\ fetched[n].resp.error = "none" /\ fetched[n].resp.status >= 400
        /\ SkippedAt(fetched[n].topic, "skip_fetch")
        /\ InSeq(fetched[n].topic + 1, processed)

\* ------------------------------------------------------- the polling loop
\* sample_agents_bing_grounding_asa.py, lines 156-167, and process_run of
\* sample_agents_use_webpage_contents.py; given says which of the two runs
\* the statuses of a run that has not ended, and of one that has
NotEnded == {"queued", "in_progress", "requires_action"}
Terminal == {"completed", "failed", "cancelled", "expired"}
pollFrame == <<exitReason, topics, file, file0, mainLoc, selector_thread,
               remote, hist, nfaults, ptData, io, given, main_base_url>>

InitPoll ==
    /\ NotRunning
    /\ given \in {"poll", "process_run"}
    /\ pc = IF given = "poll" THEN "poll_create" ELSE "pr_call"
    /\ run = "none" /\ polls = 0
    /\ remote_status \in (IF given = "poll" THEN NotEnded \cup Terminal
                          ELSE {"none"})
    /\ messages = NoMessages
    /\ selected_link = NoneText /\ relative_path = NoneText
    /\ selected_page_content = NoneText /\ filled_form = NoneText
    /\ artifacts = {}

\* the service moves the run on; a run that has ended stays as it is
ServiceStep ==
    /\ remote_status \in NotEnded
    /\ remote_status' \in (NotEnded \cup Terminal) \ {remote_status}
    /\ UNCHANGED <<pc, run, polls, outcome, pollFrame>>

\* lines 156-158; an exception goes to the handler at line 192
PollCreateRun ==
    /\ pc = "poll_create"
    /\ \/ run' = remote_status /\ pc' = "poll_test"
       \/ run' = "raised" /\ pc' = "poll_raised"
    /\ UNCHANGED <<remote_status, polls, outcome, pollFrame>>

\* line 159: the statuses for which the loop goes round again
LoopStatusesShort == {"queued", "in_progress"}
LoopStatuses == {"queued", "in_progress", "requires_action"}

\* line 159: the loop test
PollTest ==
    /\ pc = "poll_test"
    /\ pc' = IF run \in LoopStatuses THEN "poll_sleep" ELSE "poll_list"
    /\ UNCHANGED <<run, remote_status, polls, outcome, pollFrame>>

\* lines 160-164: sleep, then get_run
PollGetRun ==
    /\ pc = "poll_sleep"
    /\ polls' = IF polls < MaxPolls THEN polls + 1 ELSE polls
    /\ \/ run' = remote_status /\ pc' = "poll_test"
       \/ run' = "raised" /\ pc' = "poll_raised"
    /\ UNCHANGED <<remote_status, outcome, pollFrame>>

\* process_run, lines 103-116: create_and_process_run hands back a run that
\* has ended, or raises
ProcessRun ==
    /\ pc = "pr_call"
    /\ \/ \E st \in Terminal :
             /\ run' = st
             /\ outcome' = IF st = "failed" THEN "None" ELSE "run"
       \/ run' = "raised" /\ outcome' = "None"
    /\ pc' = "pr_done"
    /\ UNCHANGED <<remote_status, polls, pollFrame>>

NextPoll ==
    ServiceStep \/ PollCreateRun \/ PollTest \/ PollGetRun \/ ProcessRun

\* the client is a sequential program that keeps running: each of its steps
\* is taken once it is the next one; the service is under no obligation
SpecPoll ==
    /\ InitPoll /\ [][NextPoll]_vars
    /\ WF_vars(PollCreateRun) /\ WF_vars(PollTest) /\ WF_vars(PollGetRun)

C19_FilledIffArtifact ==
    pc = "done" =>
        \A j \in Indices :
            IsLeafAt(j) =>
                ((\E a \in artifacts : a.topic = j /\ a.kind = "filled_form")
                    <=> FilledAt(j))

\* ------------------------------------------- write_to_file: the file path
\* file names are sequences of characters here
max_filename_length == 32
Kinds4 == {"selected_link", "combined_link", "instructions_content",
           "filled_form"}
\* lines 212, 230, 239, 274: what follows the topic in the file name
KindName(kind) ==
    CASE kind = "selected_link" -> <<"_", "s", "e", "l", "e", "c", "t", "e", "d", "_", "l", "i", "n", "k">>
      [] kind = "combined_link" -> <<"_", "c", "o", "m", "b", "i", "n", "e", "d", "_", "l", "i", "n", "k">>
      [] kind = "instructions_content" -> <<"_", "i", "n", "s", "t", "r", "u", "c", "t", "i", "o", "n", "s", "_", "c", "o", "n", "t", "e", "n", "t">>
      [] kind = "filled_form" -> <<"_", "f", "i", "l", "l", "e", "d", "_", "f", "o", "r", "m">>
KindExt(kind) ==
    IF kind \in {"selected_link", "combined_link"}
    THEN <<"t", "x", "t">> ELSE <<"j", "s", "o", "n">>
FileName(topic, kind) == topic \o KindName(kind) \o <<".">> \o KindExt(kind)

\* lines 24-27: rsplit at the last dot, the name cut to 32 characters
LastDot(f) == Max({d \in 1..Len(f) : f[d] = "."})
Shorten(filename) ==
    IF Len(filename) > max_filename_length
    THEN LET d == LastDot(filename)
             name == SubSeq(filename, 1, d - 1)
             postfix == SubSeq(filename, d + 1, Len(filename))
         IN  SubSeq(name, 1, Min({max_filename_length, Len(name)}))
             \o <<".">> \o postfix
    ELSE filename
\* lines 29-37, with sub_dir set for the filled form only (line 275): it is
\* topic_dir, the name of the topic's group (line 496)
FilePath(topic, kind) ==
    [dir  |-> IF kind = "filled_form" THEN <<"out", "topic_dir">>
              ELSE <<"out">>,
     name |-> Shorten(FileName(topic, kind))]

\* topic names: a run of one letter with a last letter that tells them apart
TopicLens == {1} \cup ((max_filename_length - 3)..MaxTopicLen)
TopicName(len, last) == [k \in 1..len |-> IF k = len THEN last ELSE "a"]
TopicNames == {TopicName(len, last) : len \in TopicLens, last \in {"a", "b"}}
Writes == [topic : TopicNames, kind : Kinds4]

InitWrite ==
    /\ NotRunning /\ NoPoll
    /\ pc = "write_first"
    /\ given \in {g \in [a : Writes, b : Writes] : g.a # g.b}
    /\ messages = NoMessages
    /\ selected_link = NoneText /\ relative_path = NoneText
    /\ selected_page_content = NoneText /\ filled_form = NoneText
    /\ artifacts = {}

\* lines 37-41: open(filepath, 'w') replaces what the path held
WriteFile(here, next, w) ==
    /\ pc = here
    /\ LET p == FilePath(w.topic, w.kind)
       IN  artifacts' = {f \in artifacts : f.path # p}
                            \cup {[path |-> p, topic |-> w.topic, kind |-> w.kind]}
    /\ pc' = next
    /\ UNCHANGED <<progState, inputs, ptData>>
WriteFirst == WriteFile("write_first", "write_second", given.a)
WriteSecond == WriteFile("write_second", "write_done", given.b)

SpecWrite == InitWrite /\ [][WriteFirst \/ WriteSecond]_vars

\* C20: two different artifacts of a run (another topic, or another kind of
\* the same topic) are never written to the same path, so both are there
\* after both writes, whatever the length of the topic names.
C20_NoArtifactOverwritten ==
    pc = "write_done" =>
        \A w \in {given.a, given.b} :
            \E f \in artifacts : f.topic = w.topic /\ f.kind = w.kind

\* C21: every file name that write_to_file writes is at most 32 characters
\* long, whatever the length of the name asked for.
C21_FileNameAtMost32 ==
    \A f \in artifacts : Len(f.path.name) <= max_filename_length

\* ------------------------------------------------------------ Spec again
\* the group a group resource was created for: every group start creates its
\* filler agent first (line 454)
GroupOf(h) == Cardinality({a \in 1..h : handles[a] = "filler_agent"})

\* C22: at a group marker the filler agent, the filler thread and the
\* selector agent of the previous group have all been passed to a delete call
\* before any resource of the new group is created.
C22_PreviousGroupDeletedFirst ==
    \A h \in Created : \A c \in Created :
        (handles[h] \in GroupKinds /\ handles[c] \in GroupKinds
            /\ GroupOf(h) < GroupOf(c))
          => InSeq(h, deleteCalls)

\* handle h is of the given kind, was created by the run for group g and has
\* not been passed to a delete call
FreshHandleOf(h, kind, g) ==
    /\ HasHandle(h) /\ h \in Created /\ handles[h] = kind
    /\ GroupOf(h) = g
    /\ ~InSeq(h, deleteCalls)
HandlesOfGroup(g) ==
    /\ FreshHandleOf(form_filler_agent, "filler_agent", g)
    /\ FreshHandleOf(form_filler_thread, "filler_thread", g)
    /\ FreshHandleOf(selector_agent, "selector_agent", g)
    /\ \A a \in CreatedOf("filler_thread") : \A b \in CreatedOf("filler_thread") :
          GroupOf(a) = GroupOf(b) => a = b

DaysLater(f, d) == [f EXCEPT !.age = IF f.exists /\ IsDate(@) THEN @ + d ELSE @]

\* C24: after a run whose rebuild aborted on the parser's response (not
\* loadable, or an empty 'links' list), a run started on the same day or up to
\* a week later does not take the persisted file as fresh: it rebuilds.
C24_FailedRebuildLeavesNoFreshCache ==
    (pc = "done" /\ exitReason = "index_abort" /\ Rebuilding) =>
        \A d \in 0..WeekDays : ~UseExistingFile(DaysLater(file, d))

\* C25: the filled form written for a topic is the reply of that topic's own
\* filler run, never the reply the filler gave to an earlier topic of the
\* group, also when the topic's run ended without a new assistant text.
C25_OwnReplyWritten ==
    \A a \in artifacts :
        a.kind = "filled_form" => a.data = StripFences(FormOf(a.topic))

\* ------------------------------------- the base URL across the cache paths
\* main() up to the topic loop for either portal, then the resolution of one
\* extracted path: given.base is OUTDIR, given.file the parser_response.yaml
\* the run finds, given.path the path process_topic extracted
PortalRuns == [base : Bases, file : Files, path : Paths]

InitPortal ==
    /\ NotRunning /\ NoPoll
    /\ pc = "portal_start"
    /\ given \in PortalRuns
    /\ messages = NoMessages
    /\ selected_link = NoneText
    /\ relative_path = given.path
    /\ selected_page_content = NoneText /\ filled_form = NoneText
    /\ artifacts = {}

portalFrame == <<progState, given0, messages, relative_path,
                 selected_page_content, filled_form, artifacts>>

\* lines 325-327
PortalConfigure ==
    /\ pc = "portal_start"
    /\ main_base_url' = BaseUrlOf(given.base)
    /\ pc' = "portal_check_cache"
    /\ UNCHANGED <<portalFrame, selected_link>>

\* lines 359-360
PortalCheckCache ==
    /\ pc = "portal_check_cache"
    /\ pc' = IF UseExistingFile(given.file) THEN "portal_load_cache"
             ELSE "portal_rebuild"
    /\ UNCHANGED <<portalFrame, selected_link, main_base_url>>

\* lines 361-366: the cached index is loaded, or the run ends
PortalLoadCache ==
    /\ pc = "portal_load_cache"
    /\ pc' = IF given.file.content = "good" THEN "portal_resolve"
             ELSE "portal_abort"
    /\ UNCHANGED <<portalFrame, selected_link, main_base_url>>

\* lines 368-430: the base URL of the rebuild; the rebuild then yields an
\* index or ends the run
PortalRebuild ==
    /\ pc = "portal_rebuild"
    /\ main_base_url' = RebuildBaseUrl(given.base, main_base_url)
    /\ pc' \in {"portal_resolve", "portal_abort"}
    /\ UNCHANGED <<portalFrame, selected_link>>

\* lines 224-228, with the base_url main() passed at line 499
PortalResolve ==
    /\ pc = "portal_resolve"
    /\ selected_link' = AbsoluteUrl(main_base_url, relative_path, url_postfix)
    /\ pc' = "portal_done"
    /\ UNCHANGED <<portalFrame, main_base_url>>

NextPortal ==
    \/ PortalConfigure
    \/ PortalCheckCache
    \/ PortalLoadCache
    \/ PortalRebuild
    \/ PortalResolve

SpecPortal == InitPortal /\ [][NextPortal]_vars

\* C26: for the same portal and the same extracted path, the URL fetched is
\* the one a run that loaded its index from the cache fetches, whether this
\* run loaded the index or rebuilt it.
C26_SameUrlOnBothCachePaths ==
    pc = "portal_done" =>
        selected_link =
            AbsoluteUrl(BaseUrlOf(given.base), given.path, url_postfix)


\* ------------------------------------------ the group's filler thread
Count(x, seq) == Cardinality({n \in 1..Len(seq) : seq[n] = x})
UserMessages(thread) == Count("user", [n \in 1..Len(thread) |-> thread[n].role])
\* process_topic's positions before create_message on the filler thread, and
\* those after it
BeforeFillerPcs == {"pt_create_thread", "pt_message", "pt_run", "pt_list",
                    "pt_extract", "pt_write_link", "pt_parse",
                    "pt_skip_delete", "pt_delete_thread", "pt_write_combined",
                    "pt_fetch", "pt_write_instr"}
AfterFillerMessagePcs == {"pt_filler_run", "pt_filler_list",
                          "pt_filler_extract", "pt_write_filled"}
\* the skips that lines 172-237 return with
BeforeFillerSkips == {"skip_thread", "skip_message", "skip_run", "skip_list",
                      "skip_reply", "skip_nolink", "skip_fetch"}
\* the ends of a topic whose message was put on the filler thread
AfterFillerMessageEnds == {"skip_filler_run", "skip_filler_list",
                           "skip_filler_reply", "Filled"}

\* C27: a topic skipped before the filler step has no message on the filler
\* thread and no step of it changes the thread or starts a filler run; a
\* topic that reaches the filler step puts exactly one user message on the
\* thread, as the one step that enters the filler run.
C27_SkipLeavesFillerThread ==
    /\ [](/\ \A n \in 1..Len(results) :
                /\ results[n].outcome \in BeforeFillerSkips =>
                      Count(results[n].topic, fillerMsgs) = 0
                /\ results[n].outcome \in AfterFillerMessageEnds =>
                      Count(results[n].topic, fillerMsgs) = 1
          /\ (pc \in BeforeFillerPcs \cup {"pt_filler_message"}) =>
                Count(i, fillerMsgs) = 0
          /\ pc \in AfterFillerMessagePcs => Count(i, fillerMsgs) = 1)
    /\ [][/\ pc \in BeforeFillerPcs =>
                /\ thread_data' = thread_data
                /\ pc' \notin AfterFillerMessagePcs
          /\ pc' = "pt_filler_run" =>
                /\ pc = "pt_filler_message"
                /\ thread_data' =
                      <<Message("user", <<TextBlock(Prompt)>>)>> \o thread_data
          /\ (pc = "pt_filler_message" /\ pc' # "pt_filler_run") =>
                thread_data' = thread_data
          /\ pc \in AfterFillerMessagePcs =>
                UserMessages(thread_data') = UserMessages(thread_data)]_vars
\* in one group, the first leaf was filled and the second was skipped when
\* its instruction page could not be fetched: the thread holds the first
\* leaf's message and reply and nothing of the second
C27_Witness ==
    /\ FilledAt(2) /\ SkippedAt(3, "skip_fetch")
    /\ IsLeafAt(2) /\ IsLeafAt(3)
    /\ fillerMsgs = <<2>>
    /\ Len(thread_data) = 2 /\ UserMessages(thread_data) = 1


\* ------------------------------------------- live resources in the loop
LoopPcs == {"loop"} \cup GroupPcs \cup TopicPcs
LiveOf(kind) == {h \in Live : handles[h] = kind}

\* C28: in the topic loop, while no delete call has failed, at most one
\* filler agent, one filler thread, one selector agent and one short-lived
\* selector thread are created and not yet deleted.
C28_AtMostOneLivePerKind ==
    (pc \in LoopPcs /\ deleteFailed = {}) =>
        \A kind \in GroupKinds \cup {"selector_thread"} :
            Cardinality(LiveOf(kind)) <= 1


\* ------------------------------------- write_to_file seen by its caller
\* C29: whatever happens inside write_to_file, process_topic goes on with the
\* statement after the call: after lines 211-212 the parse, after 229-230 the
\* fetch, after 238-239 the filler message, after 274-275 the return of the
\* filled form.
C29_WriteFailureKeepsThePath ==
    [][/\ pc = "pt_write_link" => pc' = "pt_parse"
       /\ pc = "pt_write_combined" => pc' = "pt_fetch"
       /\ pc = "pt_write_instr" => pc' = "pt_filler_message"
       /\ pc = "pt_write_filled" =>
             pc' = "pt_return" /\ outcome' = "Filled"]_vars

====
